---------------------------- MODULE Spec2Model ----------------------------
(***************************************************************************)
(* Bond Yard Inventory: the single-page client of src/server.js            *)
(* (BondYardInventory and its forms), together with the REST backend it    *)
(* talks to.  The backend's code is not part of src/; it is modelled from  *)
(* the specification (sections 3, 4, 6 and 7) and marked as such.          *)
(*                                                                         *)
(* Texts the code inspects character by character (the search fields, the  *)
(* query, a movement's quantity) are sequences of one-character strings.   *)
(* ISO timestamps are pairs <<day, timeOfDay>>; a null date is <<>>.       *)
(* Ids (uid() in the client, keys in the backend) are fresh numbers.       *)
(***************************************************************************)
EXTENDS Integers, Sequences, FiniteSets, TLC

(***************************************************************************)
(* Bounds of the model.                                                    *)
(***************************************************************************)
MaxVehicles == 2
MaxMovements == 3
MaxAttachments == 2
MaxCalls == 2
MaxFailures == 1
MaxItems == 2

VARIABLES
  useApi,        \* USE_API, the build-time switch between API and local mode
  items,         \* useState([]): the vehicle list the page shows
  query,         \* useState(""): the search box
  statusFilter,  \* useState("ALL"): the status pill
  creating,      \* useState(false): the New Vehicle modal is open
  editing,       \* useState(null): the vehicle snapshot the Edit modal holds, <<>> for null
  loading,       \* useState(true)
  error,         \* useState(""): the load error text, <<>> for ""
  alerts,        \* the alert() calls made so far, in order
  localStore,    \* localStorage[LS_KEY]
  inflight,      \* the requests issued and not yet settled in the client
  db,            \* the backend's vehicles table with its movements and attachments
  nextRid,       \* requests issued so far
  calls,         \* handler calls made so far (addVehicle .. removeAttachment)
  nextVid,       \* vehicle ids handed out so far
  nextMid,       \* movement ids handed out so far (uid())
  nextAid,       \* attachment ids handed out so far
  failures,      \* requests that failed by chance so far (network, server error)
  settled,       \* history: the requests whose continuation has run in the client
  last,          \* history: the last handler that wrote (or declined to write) the items
  gone           \* history: the ids of the vehicles removeVehicle has taken off the page

vars == <<useApi, items, query, statusFilter, creating, editing, loading, error,
          alerts, localStore, inflight, db, nextRid, calls, nextVid, nextMid,
          nextAid, failures, settled, last, gone>>

(***************************************************************************)
(* Sequence and record helpers.                                             *)
(***************************************************************************)
Range(s) == {s[i] : i \in 1..Len(s)}

\* { ...a, ...b }
Spread(a, b) ==
  [k \in DOMAIN a \cup DOMAIN b |-> IF k \in DOMAIN b THEN b[k] ELSE a[k]]

RECURSIVE SeqsUpTo(_, _)
SeqsUpTo(S, n) ==
  IF n = 0 THEN {<<>>}
  ELSE LET shorter == SeqsUpTo(S, n - 1)
       IN  shorter \cup {Append(s, x) : s \in {t \in shorter : Len(t) = n - 1}, x \in S}

(***************************************************************************)
(* Text: String.prototype.trim / toLowerCase / includes, Array.join(" ").  *)
(***************************************************************************)
IsSpace(c) == c = " "

RECURSIVE TrimLeft(_)
TrimLeft(t) == IF t # <<>> /\ IsSpace(Head(t)) THEN TrimLeft(Tail(t)) ELSE t

RECURSIVE TrimRight(_)
TrimRight(t) ==
  IF t # <<>> /\ IsSpace(t[Len(t)]) THEN TrimRight(SubSeq(t, 1, Len(t) - 1)) ELSE t

Trim(t) == TrimRight(TrimLeft(t))

LowerChar(c) ==
  CASE c = "A" -> "a"
    [] c = "B" -> "b"
    [] OTHER -> c

ToLowerCase(t) == [i \in 1..Len(t) |-> LowerChar(t[i])]

Includes(t, q) ==
  \E i \in 0..(Len(t) - Len(q)) : SubSeq(t, i + 1, i + Len(q)) = q

RECURSIVE JoinFrom(_, _)
JoinFrom(parts, i) ==
  IF i > Len(parts) THEN <<>>
  ELSE IF i = Len(parts) THEN parts[i]
  ELSE parts[i] \o <<" ">> \o JoinFrom(parts, i + 1)

JoinSpace(parts) == JoinFrom(parts, 1)

(***************************************************************************)
(* Numbers: Number(text).  A JavaScript number is modelled as a record     *)
(* [nan, val]; NaN absorbs every sum and difference.  The quantity texts   *)
(* of the model are blank, decimal integers (with an optional sign) or     *)
(* not numeric at all.                                                     *)
(***************************************************************************)
Num(n) == [nan |-> FALSE, val |-> n]

NaN == [nan |-> TRUE, val |-> 0]

Plus(a, b) == IF a.nan \/ b.nan THEN NaN ELSE Num(a.val + b.val)

Minus(a, b) == IF a.nan \/ b.nan THEN NaN ELSE Num(a.val - b.val)

Digits == {"0", "1", "2", "3", "4", "5", "6", "7", "8", "9"}

DigitVal(c) ==
  CASE c = "0" -> 0 [] c = "1" -> 1 [] c = "2" -> 2 [] c = "3" -> 3 [] c = "4" -> 4
    [] c = "5" -> 5 [] c = "6" -> 6 [] c = "7" -> 7 [] c = "8" -> 8 [] c = "9" -> 9

RECURSIVE Decimal(_)
Decimal(t) ==
  IF t = <<>> THEN 0 ELSE 10 * Decimal(SubSeq(t, 1, Len(t) - 1)) + DigitVal(t[Len(t)])

AllDigits(t) == t # <<>> /\ \A i \in 1..Len(t) : t[i] \in Digits

\* Number(s) for a string s
ToNumber(t) ==
  LET s == Trim(t)
  IN  IF s = <<>> THEN Num(0)
      ELSE IF AllDigits(s) THEN Num(Decimal(s))
      ELSE IF s[1] = "-" /\ AllDigits(Tail(s)) THEN Num(0 - Decimal(Tail(s)))
      ELSE IF s[1] = "+" /\ AllDigits(Tail(s)) THEN Num(Decimal(Tail(s)))
      ELSE NaN

\* Number(b.qty || 0)
QtyNumber(m) ==
  IF "qty" \in DOMAIN m /\ m.qty # <<>> THEN ToNumber(m.qty) ELSE Num(0)

\* (v.movements || [])
MovementsOf(v) == IF "movements" \in DOMAIN v THEN v.movements ELSE <<>>

\* (x.attachments || [])
AttachmentsOf(v) == IF "attachments" \in DOMAIN v THEN v.attachments ELSE <<>>

\* ms.reduce((a, b) => a + Number(b.qty || 0), 0)
RECURSIVE ReduceQty(_, _)
ReduceQty(ms, acc) ==
  IF ms = <<>> THEN acc ELSE ReduceQty(Tail(ms), Plus(acc, QtyNumber(Head(ms))))

IsInward(m) == m.type = "INWARD"

IsOutward(m) == m.type = "OUTWARD"

totalIn(v) == ReduceQty(SelectSeq(MovementsOf(v), IsInward), Num(0))

totalOutAsIn(v) == totalIn(v)

totalOut(v) == ReduceQty(SelectSeq(MovementsOf(v), IsOutward), Num(0))

onHand(v) == Minus(totalIn(v), totalOut(v))

(***************************************************************************)
(* The search filter (the `filtered` memo).                                *)
(***************************************************************************)
Statuses == {"In Bond", "Released", "Sold", "Hold"}

StatusPills == {"ALL"} \cup Statuses

\* String(v.year): the year is held as text (the form's input value)
StringOf(x) == x

Truthy(t) == t # <<>>

SearchFieldsNoBuyer(v) ==
  <<v.vin, v.stockNo, v.make, v.model, StringOf(v.year), v.color, v.location,
    v.supplier>>

SearchFields(v) ==
  <<v.vin, v.stockNo, v.make, v.model, StringOf(v.year), v.color, v.location,
    v.supplier, v.buyer>>

SearchText(v) == ToLowerCase(JoinSpace(SelectSeq(SearchFields(v), Truthy)))

NormalQueryNoTrim(qry) == ToLowerCase(qry)

\* query.trim().toLowerCase()
NormalQuery(qry) == ToLowerCase(Trim(qry))

matchesQ(v, qry) ==
  LET q == NormalQuery(qry) IN q = <<>> \/ Includes(SearchText(v), q)

matchesStatus(v, sf) == sf = "ALL" \/ v.status = sf

Shown(v, qry, sf) == matchesQ(v, qry) /\ matchesStatus(v, sf)

FilteredOf(its, qry, sf) ==
  LET Keep(v) == Shown(v, qry, sf) IN SelectSeq(its, Keep)

filtered == FilteredOf(items, query, statusFilter)

(***************************************************************************)
(* Dates: toISODate / fromISODate.  A date input's value is a day number,  *)
(* 0 for the empty input.                                                  *)
(***************************************************************************)
NoDate == <<>>

\* new Date().toISOString(): today, at some time of the day
Now == <<1, 1>>

Today == 1

toISODate(d) == IF d = 0 THEN NoDate ELSE <<d, 0>>

(***************************************************************************)
(* VehicleForm and MovementForm.                                           *)
(***************************************************************************)
EmptyRec == [k \in {} |-> 0]

NoText == <<>>

DefaultStatusBlank == [vin |-> NoText, stockNo |-> NoText, make |-> NoText, model |-> NoText,
                       year |-> NoText, color |-> NoText, location |-> NoText,
                       status |-> "", supplier |-> NoText, buyer |-> NoText,
                       inDate |-> Now, outDate |-> NoDate, notes |-> NoText,
                       attachments |-> <<>>, movements |-> <<>>]

\* useState(initial || { vin:"", ..., status:"In Bond", ... })
DefaultForm == [vin |-> NoText, stockNo |-> NoText, make |-> NoText, model |-> NoText,
                year |-> NoText, color |-> NoText, location |-> NoText,
                status |-> "In Bond", supplier |-> NoText, buyer |-> NoText,
                inDate |-> Now, outDate |-> NoDate, notes |-> NoText,
                attachments |-> <<>>, movements |-> <<>>]

\* what the user types into a vehicle form before saving: the net effect of the set(k, v) calls
VinTexts == {<<"A">>}

StatusChoices == {"Sold", "Hold"}

FormEdits ==
  {Spread(a, b) : a \in {EmptyRec} \cup {[vin |-> t] : t \in VinTexts},
                  b \in {EmptyRec} \cup {[status |-> st] : st \in StatusChoices}}

\* the inline editors of a vehicle card: notes, in date, out date
NoteTexts == {<<"x">>, <<"y">>}

DateInputs == {2}

InlinePatches ==
  {[notes |-> t] : t \in NoteTexts}
    \cup {[inDate |-> toISODate(d)] : d \in DateInputs}
    \cup {[outDate |-> toISODate(d)] : d \in DateInputs}

MovementTypes == {"INWARD", "OUTWARD"}

QtyTexts == {<<"2">>, <<>>, <<"x">>}

\* onAdd({ id: uid(), type, date: toISODate(date), qty, notes })
NewMovement(mid, type, qty) ==
  [id |-> mid, type |-> type, date |-> toISODate(Today), qty |-> qty, notes |-> NoText]

\* the movement addVehicle gives a new vehicle in local mode
InitialStock(mid, vehicle) ==
  [id |-> mid, type |-> "INWARD",
   date |-> IF vehicle.inDate # NoDate THEN vehicle.inDate ELSE Now,
   qty |-> <<"1">>, notes |-> <<"Initial stock">>]

(***************************************************************************)
(* The setItems updaters of the handlers.                                  *)
(***************************************************************************)
HasId(s, id) == \E i \in 1..Len(s) : s[i].id = id

\* items.find((v) => v.id === id), EmptyRec for undefined
Find(s, id) ==
  IF HasId(s, id)
  THEN s[CHOOSE i \in 1..Len(s) : s[i].id = id /\ \A j \in 1..(i - 1) : s[j].id # id]
  ELSE EmptyRec

\* (s) => [created, ...s]
Prepend(s, v) == <<v>> \o s

ReplaceByIdMerging(s, id, v) ==
  [i \in 1..Len(s) |->
     IF s[i].id = id
     THEN LET New(m) == m.id \notin {k.id : k \in Range(MovementsOf(s[i]))}
          IN  Spread(v, [movements |-> MovementsOf(s[i]) \o SelectSeq(MovementsOf(v), New)])
     ELSE s[i]]

\* (s) => s.map((v) => v.id === id ? updated : v)
ReplaceById(s, id, v) == [i \in 1..Len(s) |-> IF s[i].id = id THEN v ELSE s[i]]

MergeByIdEverywhere(s, id, patch) == [i \in 1..Len(s) |-> Spread(s[i], patch)]

\* (s) => s.map((v) => v.id === id ? {...v, ...patch} : v)
MergeById(s, id, patch) ==
  [i \in 1..Len(s) |-> IF s[i].id = id THEN Spread(s[i], patch) ELSE s[i]]

RemoveByIdInverted(s, id) == LET Same(v) == v.id = id IN SelectSeq(s, Same)

\* (s) => s.filter((v) => v.id !== id)
RemoveById(s, id) == LET Other(v) == v.id # id IN SelectSeq(s, Other)

AppendMovementEverywhere(s, id, m) ==
  [i \in 1..Len(s) |-> Spread(s[i], [movements |-> Append(MovementsOf(s[i]), m)])]

\* (s) => s.map((x) => x.id === id ? {...x, movements: [...(x.movements||[]), m]} : x)
AppendMovement(s, id, m) ==
  [i \in 1..Len(s) |->
     IF s[i].id = id
     THEN Spread(s[i], [movements |-> Append(MovementsOf(s[i]), m)])
     ELSE s[i]]

DropMovementLast(s, id, mid) ==
  [i \in 1..Len(s) |->
     IF s[i].id = id /\ s[i].movements # <<>>
     THEN Spread(s[i], [movements |-> SubSeq(s[i].movements, 1, Len(s[i].movements) - 1)])
     ELSE s[i]]

\* (s) => s.map((x) => x.id === id ? {...x, movements: x.movements.filter((m) => m.id !== mid)} : x)
DropMovement(s, id, mid) ==
  LET Other(m) == m.id # mid
  IN  [i \in 1..Len(s) |->
         IF s[i].id = id
         THEN Spread(s[i], [movements |-> SelectSeq(s[i].movements, Other)])
         ELSE s[i]]

\* (s) => s.map((x) => x.id === id ? {...x, attachments: [...(x.attachments||[]), ...more]} : x)
AppendAttachments(s, id, more) ==
  [i \in 1..Len(s) |->
     IF s[i].id = id
     THEN Spread(s[i], [attachments |-> AttachmentsOf(s[i]) \o more])
     ELSE s[i]]

\* (s) => s.map((x) => x.id === id ? {...x, attachments: (x.attachments||[]).filter((a) => a.id !== aid)} : x)
DropAttachment(s, id, aid) ==
  LET Other(a) == a.id # aid
  IN  [i \in 1..Len(s) |->
         IF s[i].id = id
         THEN Spread(s[i], [attachments |-> SelectSeq(AttachmentsOf(s[i]), Other)])
         ELSE s[i]]

\* const vehicle = { id: uid(), ...data }; if no movements, give it the initial stock movement
LocalVehicle(vid, mid, data) ==
  LET vehicle == Spread([id |-> vid], data)
  IN  IF MovementsOf(vehicle) = <<>>
      THEN Spread(vehicle, [movements |-> <<InitialStock(mid, vehicle)>>])
      ELSE vehicle

(***************************************************************************)
(* The REST backend, modelled from the specification: three tables with a  *)
(* cascade from a vehicle to its movements and attachments; an update      *)
(* replaces the vehicle's columns and, verbatim, its movement list; a      *)
(* request aimed at a vehicle the store does not hold is refused.          *)
(***************************************************************************)
Columns == {"vin", "stockNo", "make", "model", "year", "color", "location", "status",
            "supplier", "buyer", "inDate", "outDate", "notes"}

Restrict(f, K) == [k \in DOMAIN f \cap K |-> f[k]]

DbHas(d, id) == \E i \in 1..Len(d) : d[i].id = id

DbRow(d, id) == d[CHOOSE i \in 1..Len(d) : d[i].id = id]

\* the store with f applied to the row id, the other rows as they are
DbPut(d, id, row) == [i \in 1..Len(d) |-> IF d[i].id = id THEN row ELSE d[i]]

BackendKnows(d, r) == r.op \in {"list", "create"} \/ DbHas(d, r.id)

NewRow == [vin |-> NoText, stockNo |-> NoText, make |-> NoText, model |-> NoText,
           year |-> NoText, color |-> NoText, location |-> NoText, status |-> "In Bond",
           supplier |-> NoText, buyer |-> NoText, inDate |-> NoDate, outDate |-> NoDate,
           notes |-> NoText, attachments |-> <<>>, movements |-> <<>>]

BackendCreate(d, vid, body) ==
  Append(d, Spread(Spread(NewRow, Restrict(body, Columns \cup {"movements"})),
                   [id |-> vid]))

\* the columns are overwritten, the movement rows deleted and the replacement inserted verbatim
BackendUpdate(d, id, body) ==
  DbPut(d, id, Spread(DbRow(d, id), Restrict(body, Columns \cup {"movements"})))

\* the cascade takes the vehicle's movements and attachments with it
BackendRemove(d, id) == LET Other(v) == v.id # id IN SelectSeq(d, Other)

BackendAddMove(d, id, m) ==
  DbPut(d, id, Spread(DbRow(d, id), [movements |-> Append(DbRow(d, id).movements, m)]))

BackendDelMove(d, id, mid) ==
  LET Other(m) == m.id # mid
  IN  DbPut(d, id, Spread(DbRow(d, id),
                          [movements |-> SelectSeq(DbRow(d, id).movements, Other)]))

\* the uploaded files as attachment rows, ids following aid
Uploaded(files, aid) == [i \in 1..Len(files) |-> [id |-> aid + i, name |-> files[i]]]

BackendAddFiles(d, id, files, aid) ==
  DbPut(d, id, Spread(DbRow(d, id),
                      [attachments |-> DbRow(d, id).attachments \o Uploaded(files, aid)]))

BackendDelFile(d, id, aid) ==
  LET Other(a) == a.id # aid
  IN  DbPut(d, id, Spread(DbRow(d, id),
                          [attachments |-> SelectSeq(DbRow(d, id).attachments, Other)]))

\* the store after request r
BackendDb(d, r, vid, aid) ==
  CASE r.op = "list" -> d
    [] r.op = "create" -> BackendCreate(d, vid + 1, r.body)
    [] r.op = "update" -> BackendUpdate(d, r.id, r.body)
    [] r.op = "remove" -> BackendRemove(d, r.id)
    [] r.op = "addMove" -> BackendAddMove(d, r.id, r.body)
    [] r.op = "delMove" -> BackendDelMove(d, r.id, r.arg)
    [] r.op = "addFiles" -> BackendAddFiles(d, r.id, r.body.files, aid)
    [] r.op = "delFile" -> BackendDelFile(d, r.id, r.arg)

\* the response body of request r, d2 being the store after it
BackendResult(d2, r, vid, aid) ==
  CASE r.op = "list" -> d2
    [] r.op = "create" -> <<DbRow(d2, vid + 1)>>
    [] r.op \in {"update", "addMove", "delMove"} -> <<DbRow(d2, r.id)>>
    [] r.op = "addFiles" -> Uploaded(r.body.files, aid)
    [] r.op \in {"remove", "delFile"} -> <<>>

(***************************************************************************)
(* Requests in flight (apiFetch and the api object), the local FileReader.  *)
(***************************************************************************)
Ops == {"list", "create", "update", "remove", "addMove", "delMove", "addFiles", "delFile"}

Req(rid, op, id, patch, body, arg, touched, overlap) ==
  [rid |-> rid, op |-> op, id |-> id, patch |-> patch, body |-> body, arg |-> arg,
   touched |-> touched, overlap |-> overlap, phase |-> "sent", ok |-> FALSE,
   result |-> <<>>]

InFlightRids == {r.rid : r \in inflight}

Pending(op) == {r \in inflight : r.op = op /\ r.phase = "sent"}

\* history records
Event(kind, op, rid, id, patch, touched, goneM, goneA) ==
  [kind |-> kind, op |-> op, rid |-> rid, id |-> id, patch |-> patch,
   touched |-> touched, goneM |-> goneM, goneA |-> goneA]

Summary(r) ==
  [rid |-> r.rid, op |-> r.op, id |-> r.id, ok |-> r.ok, patch |-> r.patch,
   overlap |-> r.overlap]

Ids(s) == {s[i].id : i \in 1..Len(s)}

\* the movement / attachment ids held by the items whose id is id
MovementIdsOf(s, id) ==
  UNION {Ids(MovementsOf(s[i])) : i \in {j \in 1..Len(s) : s[j].id = id}}

AttachmentIdsOf(s, id) ==
  UNION {Ids(AttachmentsOf(s[i])) : i \in {j \in 1..Len(s) : s[j].id = id}}

\* history: the movement ids a replacement list drops from the items whose id is id
Superseded(s, id, patch) ==
  IF "movements" \in DOMAIN patch
  THEN MovementIdsOf(s, id) \ Ids(patch.movements)
  ELSE {}

AlertPrefix(op) ==
  CASE op = "create" -> "Create failed"
    [] op = "update" -> "Update failed"
    [] op = "remove" -> "Delete failed"
    [] op = "addMove" -> "Movement failed"
    [] op = "delMove" -> "Remove failed"
    [] op = "addFiles" -> "Upload failed"
    [] op = "delFile" -> "Delete file failed"
    [] OTHER -> "no alert"

SettleItemsOptimistic(s, r) ==
  CASE r.op = "list" -> IF r.ok THEN r.result ELSE s
    [] r.op = "create" -> IF r.ok THEN Prepend(s, r.result[1]) ELSE s
    [] r.op \in {"update", "addMove", "delMove"} ->
         IF r.ok THEN ReplaceById(s, r.id, r.result[1]) ELSE s
    [] r.op = "remove" -> RemoveById(s, r.id)
    [] r.op = "addFiles" -> IF r.ok THEN AppendAttachments(s, r.id, r.result) ELSE s
    [] r.op = "delFile" -> DropAttachment(s, r.id, r.arg)

AlertsAfterSilent(a, r) == a

\* catch (e) { alert(`... failed: ${e}`) } of the handlers; the load effect has no alert
AlertsAfter(a, r) ==
  IF ~r.ok /\ r.op # "list"
  THEN Append(a, [prefix |-> AlertPrefix(r.op), rid |-> r.rid])
  ELSE a

\* catch (e) { setError(String(e.message||e)) } of the load effect
ErrorAfter(e, r) == IF ~r.ok /\ r.op = "list" THEN <<"Error", r.rid>> ELSE e

\* what the continuation after the await does to the items: nothing when the call threw
SettleItems(s, r) ==
  IF ~r.ok THEN s
  ELSE CASE r.op = "list" -> r.result
         [] r.op = "create" -> Prepend(s, r.result[1])
         [] r.op \in {"update", "addMove", "delMove"} -> ReplaceById(s, r.id, r.result[1])
         [] r.op = "remove" -> RemoveById(s, r.id)
         [] r.op = "addFiles" -> AppendAttachments(s, r.id, r.result)
         [] r.op = "delFile" -> DropAttachment(s, r.id, r.arg)

(***************************************************************************)
(* What earlier sessions left behind, in the backend's store or under      *)
(* LS_KEY: nothing, or one vehicle with a movement and an attachment.      *)
(***************************************************************************)
Seed ==
  Spread(DefaultForm,
         [id |-> 1, vin |-> <<"A">>,
          movements |-> <<NewMovement(1, "INWARD", <<" ", "1", "0">>)>>,
          attachments |-> <<[id |-> 1, name |-> "f"]>>])

Stores == {<<>>, <<Seed>>}

(***************************************************************************)
(* The page after it has mounted: in API mode the list request of the      *)
(* load effect is in flight; in local mode loadLocal() has answered.       *)
(***************************************************************************)
Init ==
  /\ useApi \in BOOLEAN
  /\ db \in Stores
  /\ localStore = IF useApi THEN <<>> ELSE db
  /\ items = localStore
  /\ query = NoText
  /\ statusFilter = "ALL"
  /\ creating = FALSE
  /\ editing = EmptyRec
  /\ loading = useApi
  /\ error = NoText
  /\ alerts = <<>>
  /\ inflight = IF useApi THEN {Req(0, "list", 0, EmptyRec, EmptyRec, 0, {}, {})} ELSE {}
  /\ nextRid = IF useApi THEN 1 ELSE 0
  /\ calls = 0
  /\ nextVid = Len(db)
  /\ nextMid = Len(db)
  /\ nextAid = Len(db)
  /\ failures = 0
  /\ settled = {}
  /\ last = Event("init", "", 0 - 1, 0, EmptyRec, {}, {}, {})
  /\ gone = {}

\* the card of items[i] is on the page
OnPage(i) == i \in 1..Len(items) /\ Shown(items[i], query, statusFilter)

\* a call of apiFetch: the request leaves, the handler waits at its await
Issue(op, id, patch, body, arg, touched) ==
  /\ inflight' = inflight \cup {Req(nextRid, op, id, patch, body, arg, touched, InFlightRids)}
  /\ nextRid' = nextRid + 1

\* a Modal covers the page: nothing behind it can be clicked until it closes
ModalOpen == creating \/ editing # EmptyRec

\* the card of items[i] can be clicked
Card(i) == OnPage(i) /\ ~ModalOpen

\* a handler is called
Called ==
  /\ calls < MaxCalls
  /\ calls' = calls + 1

\* setCreating(true)
openCreate ==
  /\ ~ModalOpen
  /\ creating' = TRUE
  /\ UNCHANGED <<gone, useApi, calls, items, query, statusFilter, editing, loading, error, alerts,
                 localStore, inflight, db, nextRid, nextVid, nextMid, nextAid, failures,
                 settled, last>>

\* onCancel / onClose of the New Vehicle modal
cancelCreate ==
  /\ creating
  /\ creating' = FALSE
  /\ UNCHANGED <<gone, useApi, calls, items, query, statusFilter, editing, loading, error, alerts,
                 localStore, inflight, db, nextRid, nextVid, nextMid, nextAid, failures,
                 settled, last>>

\* Save Vehicle in the New Vehicle modal: addVehicle(form), up to its await
addVehicle(edits) ==
  LET data == Spread(DefaultForm, edits)
  IN  /\ creating
      /\ data.vin # NoText
      /\ Called
      /\ IF useApi
         THEN /\ nextVid + Cardinality(Pending("create")) < MaxVehicles
              /\ Issue("create", 0, EmptyRec, data, 0, DOMAIN edits)
              /\ UNCHANGED <<items, creating, localStore, nextVid, nextMid, last>>
         ELSE /\ nextVid < MaxVehicles
              /\ nextMid < MaxMovements
              /\ items' = Prepend(items, LocalVehicle(nextVid + 1, nextMid + 1, data))
              /\ creating' = FALSE
              /\ localStore' = items'
              /\ nextVid' = nextVid + 1
              /\ nextMid' = nextMid + 1
              /\ last' = Event("local", "create", 0 - 1, nextVid + 1, EmptyRec,
                               DOMAIN edits, {}, {})
              /\ UNCHANGED <<inflight, nextRid>>
      /\ UNCHANGED <<gone, useApi, query, statusFilter, editing, loading, error, alerts, db,
                     nextAid, failures, settled>>

\* updateVehicle(id, patch), up to its await
updateVehicle(id, patch) ==
  IF useApi
  THEN /\ Issue("update", id, patch, Spread(Find(items, id), patch), 0, {})
       /\ UNCHANGED <<items, localStore, last>>
  ELSE /\ items' = MergeById(items, id, patch)
       /\ localStore' = items'
       /\ last' = Event("local", "update", 0 - 1, id, patch, {},
                        Superseded(items, id, patch), {})
       /\ UNCHANGED <<inflight, nextRid>>

\* onChange of a card's notes, in date or out date editor
editInline(i, patch) ==
  /\ Card(i)
  /\ Called
  /\ updateVehicle(items[i].id, patch)
  /\ UNCHANGED <<gone, useApi, query, statusFilter, creating, editing, loading, error, alerts,
                 db, nextVid, nextMid, nextAid, failures, settled>>

\* setEditing(v)
openEdit(i) ==
  /\ Card(i)
  /\ editing' = items[i]
  /\ UNCHANGED <<gone, useApi, calls, items, query, statusFilter, creating, loading, error, alerts,
                 localStore, inflight, db, nextRid, nextVid, nextMid, nextAid, failures,
                 settled, last>>

\* onCancel / onClose of the Edit modal
cancelEdit ==
  /\ editing # EmptyRec
  /\ editing' = EmptyRec
  /\ UNCHANGED <<gone, useApi, calls, items, query, statusFilter, creating, loading, error, alerts,
                 localStore, inflight, db, nextRid, nextVid, nextMid, nextAid, failures,
                 settled, last>>

\* Save Vehicle in the Edit modal: updateVehicle(editing.id, form); setEditing(null)
saveEdit(edits) ==
  LET data == Spread(editing, edits)
  IN  /\ editing # EmptyRec
      /\ data.vin # NoText
      /\ Called
      /\ updateVehicle(editing.id, data)
      /\ editing' = EmptyRec
      /\ UNCHANGED <<gone, useApi, query, statusFilter, creating, loading, error, alerts, db,
                     nextVid, nextMid, nextAid, failures, settled>>

\* Delete on a card: removeVehicle(v.id), up to its await
removeVehicle(i, confirmed) ==
  /\ Card(i)
  /\ IF ~confirmed
     THEN UNCHANGED <<items, localStore, inflight, nextRid, calls, last, gone>>
     ELSE IF useApi
     THEN /\ Called
          /\ Issue("remove", items[i].id, EmptyRec, EmptyRec, 0, {})
          /\ UNCHANGED <<items, localStore, last, gone>>
     ELSE /\ Called
          /\ items' = RemoveById(items, items[i].id)
          /\ localStore' = items'
          /\ gone' = gone \cup {items[i].id}
          /\ last' = Event("local", "remove", 0 - 1, items[i].id, EmptyRec, {},
                           MovementIdsOf(items, items[i].id),
                           AttachmentIdsOf(items, items[i].id))
          /\ UNCHANGED <<inflight, nextRid>>
  /\ UNCHANGED <<useApi, query, statusFilter, creating, editing, loading, error, alerts,
                 db, nextVid, nextMid, nextAid, failures, settled>>

\* Add in a card's MovementForm: addMovement(v.id, m), up to its await
addMovement(i, type, qty) ==
  LET m == NewMovement(nextMid + 1, type, qty)
  IN  /\ Card(i)
      /\ nextMid < MaxMovements
      /\ nextMid' = nextMid + 1
      /\ Called
      /\ IF useApi
         THEN /\ Issue("addMove", items[i].id, EmptyRec, m, 0, {})
              /\ UNCHANGED <<items, localStore, last>>
         ELSE /\ items' = AppendMovement(items, items[i].id, m)
              /\ localStore' = items'
              /\ last' = Event("local", "addMove", 0 - 1, items[i].id, m, {}, {}, {})
              /\ UNCHANGED <<inflight, nextRid>>
      /\ UNCHANGED <<gone, useApi, query, statusFilter, creating, editing, loading, error,
                     alerts, db, nextVid, nextAid, failures, settled>>

\* Remove in a movement row: removeMovement(v.id, m.id), up to its await
removeMovement(i, j) ==
  /\ Card(i)
  /\ j \in 1..Len(MovementsOf(items[i]))
  /\ Called
  /\ LET mid == items[i].movements[j].id
     IN  IF useApi
         THEN /\ Issue("delMove", items[i].id, EmptyRec, EmptyRec, mid, {})
              /\ UNCHANGED <<items, localStore, last>>
         ELSE /\ items' = DropMovement(items, items[i].id, mid)
              /\ localStore' = items'
              /\ last' = Event("local", "delMove", 0 - 1, items[i].id, EmptyRec, {},
                               {mid}, {})
              /\ UNCHANGED <<inflight, nextRid>>
  /\ UNCHANGED <<gone, useApi, query, statusFilter, creating, editing, loading, error, alerts,
                 db, nextVid, nextMid, nextAid, failures, settled>>

\* the files a user picks in one go
FileLists == {<<"f">>}

\* onChange of a card's file input: addAttachments(v.id, files), up to its await
addAttachments(i, files) ==
  /\ Card(i)
  /\ nextAid + Cardinality(Pending("addFiles")) + Len(files) <= MaxAttachments
  /\ Called
  /\ Issue("addFiles", items[i].id, EmptyRec, [files |-> files], 0, {})
  /\ UNCHANGED <<gone, useApi, items, query, statusFilter, creating, editing, loading, error,
                 alerts, localStore, db, nextVid, nextMid, nextAid, failures, settled,
                 last>>

\* Remove on an attachment: removeAttachment(v.id, a.id), up to its await
removeAttachment(i, k) ==
  /\ Card(i)
  /\ k \in 1..Len(AttachmentsOf(items[i]))
  /\ Called
  /\ LET aid == items[i].attachments[k].id
     IN  IF useApi
         THEN /\ Issue("delFile", items[i].id, EmptyRec, EmptyRec, aid, {})
              /\ UNCHANGED <<items, localStore, last>>
         ELSE /\ items' = DropAttachment(items, items[i].id, aid)
              /\ localStore' = items'
              /\ last' = Event("local", "delFile", 0 - 1, items[i].id, EmptyRec, {},
                               {}, {aid})
              /\ UNCHANGED <<inflight, nextRid>>
  /\ UNCHANGED <<gone, useApi, query, statusFilter, creating, editing, loading, error, alerts,
                 db, nextVid, nextMid, nextAid, failures, settled>>

\* the backend serves request r: it answers, or the request fails as a whole
backend(r, outcome) ==
  /\ useApi
  /\ r \in inflight
  /\ r.phase = "sent"
  /\ LET known == BackendKnows(db, r)
         committed == known /\ outcome = "ok"
         ok == known /\ outcome = "ok"
         d2 == IF committed THEN BackendDb(db, r, nextVid, nextAid) ELSE db
     IN  /\ known \/ outcome = "rejected"
         /\ (known /\ outcome # "ok") => failures < MaxFailures
         /\ failures' = IF known /\ outcome # "ok" THEN failures + 1 ELSE failures
         /\ db' = d2
         /\ nextVid' = IF committed /\ r.op = "create" THEN nextVid + 1 ELSE nextVid
         /\ nextAid' = IF committed /\ r.op = "addFiles"
                       THEN nextAid + Len(r.body.files) ELSE nextAid
         /\ inflight' = (inflight \ {r}) \cup
                          {[r EXCEPT !.phase = "replied", !.ok = ok,
                                     !.result = IF ok
                                                THEN BackendResult(d2, r, nextVid, nextAid)
                                                ELSE <<>>]}
  /\ UNCHANGED <<gone, useApi, calls, items, query, statusFilter, creating, editing, loading, error,
                 alerts, localStore, nextRid, nextMid, settled, last>>

\* { id: uid(), name: f.name, ..., dataUrl: r.result } for each file
Mapped(files, aid) == [i \in 1..Len(files) |-> [id |-> aid + i, name |-> files[i]]]

\* local mode: the FileReaders of addAttachments finish (onload) or fail (onerror)
readFiles(r, ok) ==
  /\ ~useApi
  /\ r \in inflight
  /\ r.phase = "sent"
  /\ ~ok => failures < MaxFailures
  /\ failures' = IF ok THEN failures ELSE failures + 1
  /\ nextAid' = IF ok THEN nextAid + Len(r.body.files) ELSE nextAid
  /\ inflight' = (inflight \ {r}) \cup
                   {[r EXCEPT !.phase = "replied", !.ok = ok,
                              !.result = IF ok THEN Mapped(r.body.files, nextAid)
                                         ELSE <<>>]}
  /\ UNCHANGED <<gone, useApi, calls, items, query, statusFilter, creating, editing, loading, error,
                 alerts, localStore, db, nextRid, nextVid, nextMid, settled, last>>

\* the handler resumes after its await: the continuation on success, the catch on failure
settle(r) ==
  /\ r \in inflight
  /\ r.phase = "replied"
  /\ inflight' = inflight \ {r}
  /\ items' = SettleItems(items, r)
  /\ localStore' = IF useApi THEN localStore ELSE items'
  /\ creating' = IF r.ok /\ r.op = "create" THEN FALSE ELSE creating
  /\ loading' = IF r.op = "list" THEN FALSE ELSE loading
  /\ error' = ErrorAfter(error, r)
  /\ alerts' = AlertsAfter(alerts, r)
  /\ settled' = settled \cup {Summary(r)}
  /\ gone' = IF r.ok /\ r.op = "remove" THEN gone \cup {r.id} ELSE gone
  /\ last' = Event(IF r.ok THEN "ok" ELSE "fail", r.op, r.rid,
                   IF r.ok /\ r.op = "create" THEN r.result[1].id ELSE r.id,
                   IF r.op = "addMove" THEN r.body ELSE r.patch, r.touched,
                   IF r.op = "remove" THEN MovementIdsOf(items, r.id)
                   ELSE IF r.op = "update" THEN Superseded(items, r.id, r.patch)
                   ELSE IF r.op = "delMove" THEN {r.arg} ELSE {},
                   IF r.op = "remove" THEN AttachmentIdsOf(items, r.id)
                   ELSE IF r.op = "delFile" THEN {r.arg} ELSE {})
  /\ UNCHANGED <<useApi, calls, query, statusFilter, editing, db, nextRid, nextVid, nextMid,
                 nextAid, failures>>

Next ==
  \/ openCreate
  \/ cancelCreate
  \/ \E edits \in FormEdits : addVehicle(edits)
  \/ \E i \in 1..Len(items), patch \in InlinePatches : editInline(i, patch)
  \/ \E i \in 1..Len(items) : openEdit(i)
  \/ cancelEdit
  \/ \E edits \in FormEdits : saveEdit(edits)
  \/ \E i \in 1..Len(items), confirmed \in BOOLEAN : removeVehicle(i, confirmed)
  \/ \E i \in 1..Len(items), type \in MovementTypes, qty \in QtyTexts :
       addMovement(i, type, qty)
  \/ \E i \in 1..Len(items), j \in 1..MaxMovements : removeMovement(i, j)
  \/ \E i \in 1..Len(items), files \in FileLists : addAttachments(i, files)
  \/ \E i \in 1..Len(items), k \in 1..MaxAttachments : removeAttachment(i, k)
  \/ \E r \in inflight, outcome \in {"ok", "rejected"} : backend(r, outcome)
  \/ \E r \in inflight, ok \in BOOLEAN : readFiles(r, ok)
  \/ \E r \in inflight : settle(r)

Spec == Init /\ [][Next]_vars

(***************************************************************************)
(* The search box and the status pills, over a loaded page.  The vehicles  *)
(* carry text in none, one or two neighbouring search fields.              *)
(***************************************************************************)
SearchKeys == <<"vin", "stockNo", "make", "model", "year", "color", "location",
                "supplier", "buyer">>

FirstText == <<"A", "b">>

SecondText == <<"B", "a">>

OneField(k) == Spread(DefaultForm, [x \in {k} |-> FirstText])

TwoFields(k1, k2) ==
  Spread(DefaultForm, [x \in {k1, k2} |-> IF x = k1 THEN FirstText ELSE SecondText])

SearchShapes ==
  {DefaultForm}
    \cup {OneField(SearchKeys[n]) : n \in 1..Len(SearchKeys)}
    \cup {TwoFields(SearchKeys[n], SearchKeys[n + 1]) : n \in 1..(Len(SearchKeys) - 1)}

SearchVehicles == {Spread(sh, [status |-> st]) : sh \in SearchShapes, st \in {"In Bond", "Sold"}}

\* the lists a loaded page may show, the ids following the positions
SearchLists ==
  {[n \in 1..Len(l) |-> Spread(l[n], [id |-> n])] : l \in SeqsUpTo(SearchVehicles, MaxItems)}

Queries ==
  {<<>>, <<" ">>, <<"a">>, <<"A">>, <<"B">>, <<"a", "b">>, <<"A", "B">>, <<"b", "a">>,
   <<" ", "a", "B", " ">>, <<"b", " ", "b">>, <<"B", " ", "B">>, <<"b", "b">>}

InitFilter ==
  /\ useApi = TRUE
  /\ items \in SearchLists
  /\ db = items
  /\ localStore = <<>>
  /\ query = NoText
  /\ statusFilter = "ALL"
  /\ creating = FALSE
  /\ editing = EmptyRec
  /\ loading = FALSE
  /\ error = NoText
  /\ alerts = <<>>
  /\ inflight = {}
  /\ nextRid = 1
  /\ calls = 0
  /\ nextVid = Len(items)
  /\ nextMid = 0
  /\ nextAid = 0
  /\ failures = 0
  /\ settled = {}
  /\ last = Event("ok", "list", 0, 0, EmptyRec, {}, {}, {})
  /\ gone = {}

\* onChange of the search box: setQuery(e.target.value)
setQuery(q) ==
  /\ query' = q
  /\ UNCHANGED <<gone, useApi, items, statusFilter, creating, editing, loading, error, alerts,
                 localStore, inflight, db, nextRid, calls, nextVid, nextMid, nextAid,
                 failures, settled, last>>

\* onClick of a status pill: setStatusFilter(s)
setStatusFilter(sf) ==
  /\ statusFilter' = sf
  /\ UNCHANGED <<gone, useApi, items, query, creating, editing, loading, error, alerts,
                 localStore, inflight, db, nextRid, calls, nextVid, nextMid, nextAid,
                 failures, settled, last>>

NextFilter ==
  \/ \E q \in Queries : setQuery(q)
  \/ \E sf \in StatusPills : setStatusFilter(sf)

SpecFilter == InitFilter /\ [][NextFilter]_vars

(***************************************************************************)
(* Properties.                                                             *)
(***************************************************************************)
Succeeded(op) == last.kind \in {"ok", "local"} /\ last.op = op

\* the sum of the parsed quantities of the movements of one type, by position
RECURSIVE SumOfType(_, _, _)
SumOfType(ms, type, n) ==
  IF n = 0 THEN Num(0)
  ELSE Plus(SumOfType(ms, type, n - 1),
            IF ms[n].type = type
            THEN (IF "qty" \in DOMAIN ms[n] /\ ms[n].qty # NoText
                  THEN ToNumber(ms[n].qty) ELSE Num(0))
            ELSE Num(0))

LedgerBalance(v) ==
  IF "movements" \in DOMAIN v
  THEN Minus(SumOfType(v.movements, "INWARD", Len(v.movements)),
             SumOfType(v.movements, "OUTWARD", Len(v.movements)))
  ELSE Num(0)

VehicleKeys == Columns \cup {"id", "movements", "attachments"}

\* C1: for every vehicle of the item list, onHand(v) is the sum of the parsed quantities
\* of its INWARD movements minus that of its OUTWARD movements (a blank quantity counts
\* as 0, a vehicle without movements has 0 on hand), and no record of the page, the
\* backend or the local store carries the value as a field.
C1_OnHandIsLedgerBalance ==
  /\ \A n \in 1..Len(items) :
       /\ onHand(items[n]) = LedgerBalance(items[n])
       /\ MovementsOf(items[n]) = <<>> => onHand(items[n]) = Num(0)
  /\ \A v \in Range(items) \cup Range(db) \cup Range(localStore) : DOMAIN v \subseteq VehicleKeys

\* a vehicle holds inward and outward movements, one of them with a blank quantity
C1_Witness ==
  \E n \in 1..Len(items) :
    /\ \E m \in Range(MovementsOf(items[n])) : m.type = "OUTWARD" /\ m.qty = <<"2">>
    /\ \E m \in Range(MovementsOf(items[n])) : m.type = "INWARD" /\ m.qty = <<" ", "1", "0">>
    /\ onHand(items[n]) = Num(8)

\* C2: after a successful updateVehicle(id, patch) whose patch carries a movement list,
\* every item with that id holds exactly the patch's list, and none of the movements the
\* replacement dropped.
C2_ReplacementSupersedes ==
  (Succeeded("update") /\ "movements" \in DOMAIN last.patch) =>
    \A n \in 1..Len(items) :
      items[n].id = last.id =>
        /\ items[n].movements = last.patch.movements
        /\ Ids(items[n].movements) \cap last.goneM = {}

\* the edit form was saved with a list older than the one on the page: a movement was dropped
C2_Witness ==
  /\ Succeeded("update")
  /\ "movements" \in DOMAIN last.patch
  /\ HasId(items, last.id)
  /\ last.goneM # {}

\* C3: after a confirmed, successful removeVehicle(id) no item has that id, and no movement
\* or attachment of the removed vehicle is held by a remaining item.
C3_RemoveCascades ==
  Succeeded("remove") =>
    /\ ~HasId(items, last.id)
    /\ \A n \in 1..Len(items) :
         /\ Ids(MovementsOf(items[n])) \cap last.goneM = {}
         /\ Ids(AttachmentsOf(items[n])) \cap last.goneA = {}

\* a vehicle with a movement and an attachment was removed, another vehicle remains
C3_Witness ==
  /\ Succeeded("remove")
  /\ last.goneM # {}
  /\ last.goneA # {}
  /\ items # <<>>

\* the lower-cased text of a vehicle's non-empty search fields, joined by single spaces
RECURSIVE JoinedLower(_, _)
JoinedLower(v, n) ==
  IF n = 0 THEN NoText
  ELSE LET before == JoinedLower(v, n - 1)
           field == ToLowerCase(v[SearchKeys[n]])
       IN  IF field = NoText THEN before
           ELSE IF before = NoText THEN field
           ELSE before \o <<" ">> \o field

\* the query, trimmed and lower-cased, is a substring of one of the search fields
FieldMatch(v, qry) ==
  \E n \in 1..Len(SearchKeys) :
    Includes(ToLowerCase(v[SearchKeys[n]]), ToLowerCase(Trim(qry)))

JoinedMatch(v, qry) ==
  Includes(JoinedLower(v, Len(SearchKeys)), ToLowerCase(Trim(qry)))

CaseBlind ==
  \A q2 \in Queries :
    ToLowerCase(q2) = ToLowerCase(query) =>
      FilteredOf(items, q2, statusFilter) = filtered

PassesStatus(v) == statusFilter = "ALL" \/ v.status = statusFilter

\* C4 as stated: a vehicle passes the text filter exactly when the trimmed, lower-cased
\* query is a substring of the lower-cased text of one of its search fields; queries that
\* differ only in case select the same vehicles; a shown vehicle passes the status filter.
C4_Original ==
  /\ \A n \in 1..Len(items) :
       /\ matchesQ(items[n], query) <=> FieldMatch(items[n], query)
       /\ items[n] \in Range(filtered) => PassesStatus(items[n])
  /\ CaseBlind

\* C4, amended: a vehicle passes the text filter exactly when the trimmed, lower-cased
\* query is a substring of the lower-cased text of its non-empty search fields joined by
\* single spaces (so a query may match across two neighbouring fields); queries that
\* differ only in case select the same vehicles; a vehicle is shown exactly when it
\* passes the text filter and the status filter.
C4_SearchOverJoinedFields ==
  /\ \A n \in 1..Len(items) :
       /\ matchesQ(items[n], query) <=> JoinedMatch(items[n], query)
       /\ FieldMatch(items[n], query) => matchesQ(items[n], query)
       /\ items[n] \in Range(filtered) <=>
            (JoinedMatch(items[n], query) /\ PassesStatus(items[n]))
  /\ CaseBlind

\* an upper-case query matches one vehicle across two fields and misses another
C4_Witness ==
  /\ query = <<"B", " ", "B">>
  /\ \E n \in 1..Len(items) :
       /\ items[n] \in Range(filtered)
       /\ ~FieldMatch(items[n], query)
  /\ \E n \in 1..Len(items) : ~matchesQ(items[n], query)

\* the items that pass the status filter, in the order of the list
RECURSIVE PassingStatus(_, _)
PassingStatus(its, n) ==
  IF n = 0 THEN <<>>
  ELSE PassingStatus(its, n - 1) \o (IF PassesStatus(its[n]) THEN <<its[n]>> ELSE <<>>)

\* C5 as stated: whenever the query is empty or only whitespace, the filtered list is the
\* item list.
C5_Original == Trim(query) = NoText => filtered = items

\* C5, amended: whenever the query is empty or only whitespace, the filtered list holds
\* every vehicle of the item list that passes the status filter, in the same order: all
\* of them when the status filter is ALL.
C5_EmptyQueryKeepsStatusMatches ==
  Trim(query) = NoText =>
    /\ filtered = PassingStatus(items, Len(items))
    /\ statusFilter = "ALL" => filtered = items

\* a whitespace query with a status pill set: one of two vehicles is shown
C5_Witness ==
  /\ query = <<" ">>
  /\ statusFilter = "Sold"
  /\ Len(items) = 2
  /\ Len(filtered) = 1

\* two updates of one vehicle, the second issued while the first was in flight, both answered
Overlapping(a, b) ==
  /\ a.op = "update" /\ b.op = "update"
  /\ a.id = b.id
  /\ a.rid < b.rid
  /\ a.rid \in b.overlap
  /\ a.ok /\ b.ok

\* C6 as stated: once two overlapping updates of a vehicle have both completed, the item
\* holds the values of the update issued last and equals what the backend stored.
C6_LastWriteWins ==
  \A a \in settled, b \in settled :
    (/\ Overlapping(a, b)
     /\ inflight = {}
     /\ last.rid \in {a.rid, b.rid}
     /\ HasId(items, a.id)
     /\ DbHas(db, a.id))
      => /\ \A k \in DOMAIN b.patch : Find(items, a.id)[k] = b.patch[k]
         /\ Find(items, a.id) = DbRow(db, a.id)

\* a failed call is being settled by this step
FailureOf(r) == r \in inflight /\ r.phase = "replied" /\ ~r.ok /\ r \notin inflight'

\* C7: the step in which a failed call is settled leaves the item list as it is, sends no
\* request and leaves the other requests alone; and no handler changes the item list in
\* the step that sends its request.
C7_FailedRequestChangesNothing ==
  [][/\ \A r \in inflight :
          FailureOf(r) =>
            /\ items' = items
            /\ nextRid' = nextRid
            /\ inflight' = inflight \ {r}
     /\ nextRid' # nextRid => items' = items]_vars

\* a failed backend call has been settled while the page showed vehicles
C7_Witness ==
  /\ useApi
  /\ last.kind = "fail"
  /\ last.op \in Ops \ {"list"}
  /\ items # <<>>

AlertsFor(rid) == Cardinality({n \in 1..Len(alerts) : alerts[n].rid = rid})

\* C8 as stated: every failed request, the initial list load included, has led to exactly
\* one alert once its handler has run.
C8_Original == \A q \in settled : ~q.ok => AlertsFor(q.rid) = 1

\* C8, amended: every failed create, update, delete, movement or attachment request has
\* led to exactly one alert, with the handler's prefix, once its handler has run; a failed
\* initial list load leads to no alert: its message becomes the page's error text. No
\* other request has an alert.
C8_FailuresAlertOnce ==
  /\ \A q \in settled :
       /\ (~q.ok /\ q.op # "list") =>
            /\ AlertsFor(q.rid) = 1
            /\ \E n \in 1..Len(alerts) :
                 alerts[n] = [prefix |-> AlertPrefix(q.op), rid |-> q.rid]
       /\ (~q.ok /\ q.op = "list") => (AlertsFor(q.rid) = 0 /\ error # NoText)
       /\ q.ok => AlertsFor(q.rid) = 0
  /\ \A r \in inflight : AlertsFor(r.rid) = 0
  /\ Len(alerts) = Cardinality({q \in settled : ~q.ok /\ q.op # "list"})

\* a failed request other than the load has been alerted
C8_Witness == \E q \in settled : ~q.ok /\ q.op # "list" /\ AlertsFor(q.rid) = 1

\* C9: no movement id is held by two items with different vehicle ids, every movement has
\* type INWARD or OUTWARD, and a movement added with addMovement(id, m) is held by the
\* items with that id and by no other item.
C9_MovementHasOneVehicle ==
  /\ \A n \in 1..Len(items), k \in 1..Len(items) :
       items[n].id # items[k].id =>
         Ids(MovementsOf(items[n])) \cap Ids(MovementsOf(items[k])) = {}
  /\ \A n \in 1..Len(items) :
       \A m \in Range(MovementsOf(items[n])) : m.type \in MovementTypes
  /\ Succeeded("addMove") =>
       \A n \in 1..Len(items) :
         (last.patch.id \in Ids(MovementsOf(items[n]))) <=> (items[n].id = last.id)

\* a movement was added to one of two vehicles
C9_Witness ==
  /\ Succeeded("addMove")
  /\ HasId(items, last.id)
  /\ \E n \in 1..Len(items) : items[n].id # last.id

\* C10: every vehicle of the item list has one of the four statuses, and a vehicle just
\* created from a form whose status was not touched has status In Bond.
C10_StatusIsEnumerated ==
  /\ \A n \in 1..Len(items) : items[n].status \in Statuses
  /\ (Succeeded("create") /\ "status" \notin last.touched) =>
       (items[1].id = last.id /\ items[1].status = "In Bond")

\* a vehicle was created with the form's status untouched, beside an edited one
C10_Witness ==
  /\ Succeeded("create")
  /\ "status" \notin last.touched
  /\ \E n \in 1..Len(items) : items[n].status = "Sold"

\* the contribution of a movement to the on-hand quantity: +qty for INWARD, -qty for OUTWARD
SignedQty(m) ==
  IF m.type = "INWARD" THEN ToNumber(IF "qty" \in DOMAIN m THEN m.qty ELSE NoText)
  ELSE Minus(Num(0), ToNumber(IF "qty" \in DOMAIN m THEN m.qty ELSE NoText))

\* the list ms without the movements whose id is mid, the others in order, by position
RECURSIVE Without(_, _, _)
Without(ms, mid, n) ==
  IF n = 0 THEN <<>>
  ELSE Without(ms, mid, n - 1) \o (IF ms[n].id = mid THEN <<>> ELSE <<ms[n]>>)

\* the contributions of the movements of ms whose id is mid, summed
RECURSIVE SignedOf(_, _, _)
SignedOf(ms, mid, n) ==
  IF n = 0 THEN Num(0)
  ELSE Plus(SignedOf(ms, mid, n - 1), IF ms[n].id = mid THEN SignedQty(ms[n]) ELSE Num(0))

\* this step is the successful end of an addMovement / removeMovement call
Completes(op) == last' # last /\ last'.kind \in {"ok", "local"} /\ last'.op = op

\* the step appends last'.patch to the vehicle last'.id and moves its on-hand by that much
AddedExactly ==
  /\ Len(items') = Len(items)
  /\ \A n \in 1..Len(items) :
       items[n].id = last'.id =>
         /\ MovementsOf(items'[n]) = Append(MovementsOf(items[n]), last'.patch)
         /\ onHand(items'[n]) = Plus(onHand(items[n]), SignedQty(last'.patch))
         /\ Without(MovementsOf(items'[n]), last'.patch.id, Len(MovementsOf(items'[n])))
              = MovementsOf(items[n])

\* the step takes the movement last'.goneM out of the vehicle last'.id, the other movements
\* kept in order, and the on-hand before is the on-hand after plus the movement's share
RemovedExactly ==
  /\ Len(items') = Len(items)
  /\ \A n \in 1..Len(items), mid \in last'.goneM :
       items[n].id = last'.id =>
         /\ MovementsOf(items'[n]) = Without(MovementsOf(items[n]), mid, Len(MovementsOf(items[n])))
         /\ onHand(items[n]) =
              Plus(onHand(items'[n]), SignedOf(MovementsOf(items[n]), mid, Len(MovementsOf(items[n]))))

\* no request has overlapped another one on this page, and the one being settled is alone
Sequential ==
  /\ \A q \in settled : q.overlap = {}
  /\ \A r \in inflight : r.overlap = {} /\ inflight = {r}

PerVehicleOps == {"update", "addMove", "delMove", "addFiles", "delFile"}

\* the step keeps the length of the list, the vehicle at every position, and every item
\* whose id is not id as it is
OthersKept(id) ==
  /\ Len(items') = Len(items)
  /\ \A n \in 1..Len(items) :
       /\ items'[n].id = items[n].id
       /\ items[n].id # id => items'[n] = items[n]

\* the first n items without those whose id is id, by position
RECURSIVE Others(_, _, _)
Others(its, id, n) ==
  IF n = 0 THEN <<>>
  ELSE Others(its, id, n - 1) \o (IF its[n].id = id THEN <<>> ELSE <<its[n]>>)

\* C12: a step that changes the item list on behalf of updateVehicle, addMovement,
\* removeMovement, addAttachments or removeAttachment for vehicle id keeps the length and
\* order of the list and every item with another id, and changes the list only if id is
\* in it; a step of removeVehicle(id) leaves exactly the items with another id.
C12_OthersUnchanged ==
  [][items' # items =>
       /\ last'.kind \in {"ok", "local"}
       /\ last'.op \in PerVehicleOps => (OthersKept(last'.id) /\ HasId(items, last'.id))
       /\ last'.op = "remove" => items' = Others(items, last'.id, Len(items))]_vars

\* a per-vehicle operation has changed one of two vehicles
C12_Witness ==
  /\ last.kind \in {"ok", "local"}
  /\ last.op \in PerVehicleOps
  /\ HasId(items, last.id)
  /\ \E n \in 1..Len(items) : items[n].id # last.id
  /\ \E n \in 1..Len(items) :
       items[n].id = last.id /\ (items[n].notes # NoText \/ Len(MovementsOf(items[n])) > 1)

\* C13 as stated: no item of the list has the id of a vehicle that removeVehicle has taken
\* off the page, whatever has happened since: responses of requests that were in flight
\* when the vehicle was deleted, creations, the load.
C13_DeletedStaysDeleted == \A id \in gone : ~HasId(items, id)

=============================================================================
